---- MODULE Spec2Model ----
(***************************************************************************)
(* Model of src/resources/js/keyboard.js: the PikaKeyboard input device    *)
(* and its six Key objects, driven by keydown/keyup events of the window   *)
(* and polled once per game frame by getInput().                           *)
(*                                                                         *)
(* JavaScript runs every handler and every method to completion, so each   *)
(* event dispatch and each method call is one atomic action (Spec).        *)
(*                                                                         *)
(* SpecSteps follows the Key objects alone, with subscribe() and           *)
(* unsubscribe() run statement by statement and the event object of each   *)
(* dispatch kept. It lets an event arrive between two statements of        *)
(* subscribe(), the case the comment in Key.subscribe is about; this is    *)
(* more than the window can do, so what holds there holds of the program.  *)
(***************************************************************************)
EXTENDS Integers, Sequences, FiniteSets, TLC

(***************************************************************************)
(* Bounds                                                                  *)
(***************************************************************************)
\* the history of a press of the power hit key counts the getInput() calls made
\* during the press up to MaxFrames: a count of MaxFrames reads "MaxFrames or more"
MaxFrames == 2

(***************************************************************************)
(* Keys, codes and the two ways a keyboard is constructed                  *)
(***************************************************************************)
\* the six Key fields of PikaKeyboard, in the order the constructor,
\* subscribe() and unsubscribe() visit them
KeyOrder == <<"leftKey", "rightKey", "upKey", "downKey", "powerHitKey", "downRightKey">>

KeyNames == {KeyOrder[i] : i \in 1..Len(KeyOrder)}

\* the default value of the downRight parameter: no KeyboardEvent.code is null
NullCode == "null"

\* a KeyboardEvent.code that no key of the keyboard is constructed with; it
\* stands for every other key of the physical keyboard
OtherCode == "KeyX"

\* new PikaKeyboard(left, right, up, down, powerHit, downRight = null)
KeyValues(downRight) ==
    [k \in KeyNames |->
        CASE k = "leftKey"      -> "KeyA"
          [] k = "rightKey"     -> "KeyD"
          [] k = "upKey"        -> "KeyW"
          [] k = "downKey"      -> "KeyS"
          [] k = "powerHitKey"  -> "Space"
          [] k = "downRightKey" -> downRight]

Undefined == "undefined"

VARIABLES
    value,                      \* Key.value of each key
    isDown, isUp,               \* Key.isDown, Key.isUp of each key
    keyupListeners,             \* window's 'keyup' listeners (the keys' upListener), in order
    keydownListeners,           \* window's 'keydown' listeners (the keys' downListener), in order
    powerHitKeyIsDownPrevious,  \* PikaKeyboard.powerHitKeyIsDownPrevious
    xDirection, yDirection, powerHit,   \* the PikaUserInput fields getInput() writes
    held,                       \* the codes of the keyboard's keys that are physically held down
    lastOp,                     \* history: the operation that produced this state
    devState,                   \* history: "constructed", "subscribed", "unsubscribed"
    downAtLastGetInput,         \* history: powerHitKey.isDown as the latest getInput() found it
    press,                      \* history: the current/latest physical press of the power hit key
    script,                     \* history: how many steps of ReferenceTrace the run has followed
    pc,                         \* SpecSteps: the statement of subscribe()/unsubscribe() to run next
    event                       \* SpecSteps: the event object of the dispatch that produced this state

vars == <<value, isDown, isUp, keyupListeners, keydownListeners,
          powerHitKeyIsDownPrevious, xDirection, yDirection, powerHit,
          held, lastOp, devState, downAtLastGetInput, press, script, pc, event>>

\* the part of the state the Key methods read and write; preventedBy is the
\* set of keys whose handler called preventDefault() on the event in dispatch
Keys == [isDown |-> isDown, isUp |-> isUp,
         keyup |-> keyupListeners, keydown |-> keydownListeners,
         preventedBy |-> {}]

(***************************************************************************)
(* window.addEventListener / removeEventListener                           *)
(***************************************************************************)
Range(s) == {s[i] : i \in 1..Len(s)}

\* faulty variant: every call adds a registration
AddEventListener_NoDedupe(list, l) == Append(list, l)

\* a listener already in the list for that event type is not added again
AddEventListener(list, l) == IF l \in Range(list) THEN list ELSE Append(list, l)

RemoveEventListener(list, l) == SelectSeq(list, LAMBDA x : x # l)

(***************************************************************************)
(* class Key                                                               *)
(***************************************************************************)
\* one statement of Key.subscribe or Key.unsubscribe
KeyStatement(w, k, stmt) ==
    CASE stmt = "addKeyup"      -> [w EXCEPT !.keyup = AddEventListener(@, k)]
      [] stmt = "addKeydown"    -> [w EXCEPT !.keydown = AddEventListener(@, k)]
      [] stmt = "removeKeydown" -> [w EXCEPT !.keydown = RemoveEventListener(@, k)]
      [] stmt = "removeKeyup"   -> [w EXCEPT !.keyup = RemoveEventListener(@, k)]
      [] stmt = "reset"         -> [w EXCEPT !.isDown[k] = FALSE, !.isUp[k] = TRUE]

\* faulty variant: the keydown listener is attached first
SubscribeStatements_KeydownFirst == <<"addKeydown", "addKeyup">>

\* the statements of Key.subscribe, in order
SubscribeStatements == <<"addKeyup", "addKeydown">>

\* the statements of Key.unsubscribe, in order
UnsubscribeStatements == <<"removeKeydown", "removeKeyup", "reset">>

RECURSIVE RunStatements(_, _, _)
RunStatements(w, k, stmts) ==
    IF stmts = <<>> THEN w
    ELSE RunStatements(KeyStatement(w, k, Head(stmts)), k, Tail(stmts))

KeySubscribe(w, k) == RunStatements(w, k, SubscribeStatements)

\* faulty variant: the listeners are removed but the state is left as it was
KeyUnsubscribe_NoReset(w, k) ==
    LET w1 == [w EXCEPT !.keydown = RemoveEventListener(@, k)]
    IN  [w1 EXCEPT !.keyup = RemoveEventListener(@, k)]

\* faulty variant: a call on a Key that is not registered registers it
KeyUnsubscribe_Toggle(w, k) ==
    IF k \in Range(w.keydown) \/ k \in Range(w.keyup)
    THEN RunStatements(w, k, UnsubscribeStatements)
    ELSE RunStatements(w, k, SubscribeStatements)

KeyUnsubscribe(w, k) == RunStatements(w, k, UnsubscribeStatements)

\* faulty variant: the constructor does not subscribe
KeyConstructor_NoSubscribe(w, k) ==
    [w EXCEPT !.isDown[k] = FALSE, !.isUp[k] = TRUE]

KeyConstructor(w, k) ==
    KeySubscribe([w EXCEPT !.isDown[k] = FALSE, !.isUp[k] = TRUE], k)

\* faulty variant: isUp is not cleared
downHandler_KeepsIsUp(w, k, code) ==
    IF code = value[k]
    THEN [w EXCEPT !.isDown[k] = TRUE, !.preventedBy = @ \cup {k}]
    ELSE w

\* faulty variant: a key constructed without a code takes every event as its own
downHandler_NullMatchesAll(w, k, code) ==
    IF value[k] = NullCode \/ code = value[k]
    THEN [w EXCEPT !.isDown[k] = TRUE, !.isUp[k] = FALSE,
                   !.preventedBy = @ \cup {k}]
    ELSE w

\* faulty variant: the event's code is not compared with the key's
downHandler_AnyCode(w, k, code) ==
    [w EXCEPT !.isDown[k] = TRUE, !.isUp[k] = FALSE,
              !.preventedBy = @ \cup {k}]

downHandler(w, k, code) ==
    IF code = value[k]
    THEN [w EXCEPT !.isDown[k] = TRUE, !.isUp[k] = FALSE,
                   !.preventedBy = @ \cup {k}]
    ELSE w

\* faulty variant: isDown is not cleared
upHandler_KeepsIsDown(w, k, code) ==
    IF code = value[k]
    THEN [w EXCEPT !.isUp[k] = TRUE, !.preventedBy = @ \cup {k}]
    ELSE w

\* faulty variant: the matching keyup event is not consumed
upHandler_NoPreventDefault(w, k, code) ==
    IF code = value[k]
    THEN [w EXCEPT !.isDown[k] = FALSE, !.isUp[k] = TRUE]
    ELSE w

upHandler(w, k, code) ==
    IF code = value[k]
    THEN [w EXCEPT !.isDown[k] = FALSE, !.isUp[k] = TRUE,
                   !.preventedBy = @ \cup {k}]
    ELSE w

\* the window calls the listeners of the event's type in registration order
RECURSIVE DispatchKeydown(_, _, _)
DispatchKeydown(w, list, code) ==
    IF list = <<>> THEN w
    ELSE DispatchKeydown(downHandler(w, Head(list), code), Tail(list), code)

RECURSIVE DispatchKeyup(_, _, _)
DispatchKeyup(w, list, code) ==
    IF list = <<>> THEN w
    ELSE DispatchKeyup(upHandler(w, Head(list), code), Tail(list), code)

(***************************************************************************)
(* class PikaKeyboard                                                      *)
(***************************************************************************)
RECURSIVE ConstructKeys(_, _)
ConstructKeys(w, ks) ==
    IF ks = <<>> THEN w ELSE ConstructKeys(KeyConstructor(w, Head(ks)), Tail(ks))

RECURSIVE SubscribeKeys(_, _)
SubscribeKeys(w, ks) ==
    IF ks = <<>> THEN w ELSE SubscribeKeys(KeySubscribe(w, Head(ks)), Tail(ks))

RECURSIVE UnsubscribeKeys(_, _)
UnsubscribeKeys(w, ks) ==
    IF ks = <<>> THEN w ELSE UnsubscribeKeys(KeyUnsubscribe(w, Head(ks)), Tail(ks))

\* faulty variant: the signs of left and right are exchanged
XDirectionOf_Mirrored(d) ==
    IF d["leftKey"] THEN 1
    ELSE IF d["rightKey"] \/ d["downRightKey"] THEN -1
    ELSE 0

\* faulty variant: right is tested before left
XDirectionOf_RightFirst(d) ==
    IF d["rightKey"] \/ d["downRightKey"] THEN 1
    ELSE IF d["leftKey"] THEN -1
    ELSE 0

\* d is the keys' isDown; this.downRightKey is always a Key object, so
\* (this.downRightKey && this.downRightKey.isDown) is its isDown
XDirectionOf(d) ==
    IF d["leftKey"] THEN -1
    ELSE IF d["rightKey"] \/ d["downRightKey"] THEN 1
    ELSE 0

\* faulty variant: down is tested before up
YDirectionOf_DownFirst(d) ==
    IF d["downKey"] \/ d["downRightKey"] THEN 1
    ELSE IF d["upKey"] THEN -1
    ELSE 0

\* faulty variant: the right key is read where the down-right key is meant
YDirectionOf_RightForCombo(d) ==
    IF d["upKey"] THEN -1
    ELSE IF d["downKey"] \/ d["rightKey"] THEN 1
    ELSE 0

YDirectionOf(d) ==
    IF d["upKey"] THEN -1
    ELSE IF d["downKey"] \/ d["downRightKey"] THEN 1
    ELSE 0

\* faulty variant: level-triggered, fires on every frame the key is down
PowerHitOf_Level(previous, down) == IF down THEN 1 ELSE 0

PowerHitOf(previous, down) == IF ~previous /\ down THEN 1 ELSE 0

\* faulty variant: the latch is set once the key was seen down and never cleared
PreviousOf_Sticky(previous, down) == previous \/ down

\* faulty variant: the latch stores the rising edge instead of the key's level
PreviousOf_Edge(previous, down) == ~previous /\ down

\* the value getInput() leaves in powerHitKeyIsDownPrevious
PreviousOf(previous, down) == down

\* super(): the fields PikaUserInput gives a new input object
UserInputInit == [xDirection |-> 0, yDirection |-> 0, powerHit |-> 0]

Constructed ==
    ConstructKeys([isDown |-> [k \in KeyNames |-> Undefined],
                   isUp   |-> [k \in KeyNames |-> Undefined],
                   keyup  |-> <<>>, keydown |-> <<>>, preventedBy |-> {}],
                  KeyOrder)

(***************************************************************************)
(* State after construction                                                *)
(***************************************************************************)
\* history of the physical presses of the power hit key:
\*   started       some physical press has happened
\*   frames        getInput() calls made while the current press is held; once
\*                 the key is released, 1 if there was any and 0 if none
\*   pulses        those of them that left powerHit = 1
\*   seenDownBefore  the latest getInput() before the key went down found
\*                 powerHitKey.isDown true (false if there was none)
\*   subscribed    the key's listeners were registered when it went down and
\*                 unsubscribe() has not been called since
\*   consecutive   the key is still held and neither subscribe() nor
\*                 unsubscribe() has been called since it went down
NoPress == [started |-> FALSE, frames |-> 0, pulses |-> 0,
            seenDownBefore |-> FALSE, subscribed |-> FALSE, consecutive |-> FALSE]

Min(a, b) == IF a < b THEN a ELSE b

\* the reference scenario: press left, getInput, press power hit, getInput,
\* getInput, release left, release power hit, getInput
ReferenceTrace ==
    << <<"keydown", "KeyA">>, <<"getInput", NullCode>>,
       <<"keydown", "Space">>, <<"getInput", NullCode>>,
       <<"getInput", NullCode>>,
       <<"keyup", "KeyA">>, <<"keyup", "Space">>, <<"getInput", NullCode>> >>

\* script has this value once the run has left the reference scenario
OffScript == Len(ReferenceTrace) + 1

ScriptAfter(op, code) ==
    IF script < Len(ReferenceTrace) /\ ReferenceTrace[script + 1] = <<op, code>>
    THEN script + 1
    ELSE OffScript

\* no subscribe() or unsubscribe() call is in progress
Idle == [op |-> "idle", key |-> 0, stmt |-> 0]

\* no event is being dispatched
NoEvent == [type |-> "none", code |-> NullCode, preventedBy |-> {}]

Init ==
    /\ value \in {KeyValues("KeyV"), KeyValues(NullCode)}
    /\ isDown = Constructed.isDown
    /\ isUp = Constructed.isUp
    /\ keyupListeners = Constructed.keyup
    /\ keydownListeners = Constructed.keydown
    /\ powerHitKeyIsDownPrevious = FALSE
    /\ xDirection = UserInputInit.xDirection
    /\ yDirection = UserInputInit.yDirection
    /\ powerHit = UserInputInit.powerHit
    /\ held = {}
    /\ lastOp = "constructor"
    /\ devState = "constructed"
    /\ downAtLastGetInput = FALSE
    /\ press = NoPress
    /\ script = IF value["downRightKey"] = NullCode THEN 0 ELSE OffScript
    /\ pc = Idle
    /\ event = NoEvent

(***************************************************************************)
(* Actions                                                                 *)
(***************************************************************************)
SetKeys(w) ==
    /\ isDown' = w.isDown
    /\ isUp' = w.isUp
    /\ keyupListeners' = w.keyup
    /\ keydownListeners' = w.keydown

PowerHitCode == value["powerHitKey"]

\* the codes the keyboard's keys were constructed with
BoundCodes == {value[k] : k \in KeyNames} \ {NullCode}

Registered(k) == k \in Range(keydownListeners) /\ k \in Range(keyupListeners)

\* a key of the keyboard goes down physically: the window dispatches keydown
\* (the window has the focus: every physical transition is delivered)
KeyDown(c) ==
    /\ c \notin held
    /\ held' = held \cup {c}
    /\ SetKeys(DispatchKeydown(Keys, keydownListeners, c))
    /\ lastOp' = "event"
    /\ press' = IF c = PowerHitCode
                THEN [started |-> TRUE, frames |-> 0, pulses |-> 0,
                      seenDownBefore |-> downAtLastGetInput,
                      subscribed |-> Registered("powerHitKey"),
                      consecutive |-> TRUE]
                ELSE press
    /\ UNCHANGED <<value, powerHitKeyIsDownPrevious, xDirection, yDirection,
                   powerHit, devState, downAtLastGetInput>>
    /\ script' = ScriptAfter("keydown", c)
    /\ UNCHANGED <<pc, event>>

\* a held key auto-repeats: the window dispatches keydown again
KeyRepeat(c) ==
    /\ c \in held
    /\ SetKeys(DispatchKeydown(Keys, keydownListeners, c))
    /\ lastOp' = "event"
    /\ UNCHANGED <<value, powerHitKeyIsDownPrevious, xDirection, yDirection,
                   powerHit, held, devState, downAtLastGetInput, press>>
    /\ script' = ScriptAfter("repeat", c)
    /\ UNCHANGED <<pc, event>>

\* a held key is let go: the window dispatches keyup
KeyUp(c) ==
    /\ c \in held
    /\ held' = held \ {c}
    /\ SetKeys(DispatchKeyup(Keys, keyupListeners, c))
    /\ lastOp' = "event"
    /\ press' = IF c = PowerHitCode
                THEN [press EXCEPT !.consecutive = FALSE, !.frames = Min(@, 1)]
                ELSE press
    /\ UNCHANGED <<value, powerHitKeyIsDownPrevious, xDirection, yDirection,
                   powerHit, devState, downAtLastGetInput>>
    /\ script' = ScriptAfter("keyup", c)
    /\ UNCHANGED <<pc, event>>

\* some key the keyboard does not use goes down (or repeats), or up
OtherKeyDown ==
    /\ SetKeys(DispatchKeydown(Keys, keydownListeners, OtherCode))
    /\ lastOp' = "event"
    /\ UNCHANGED <<value, powerHitKeyIsDownPrevious, xDirection, yDirection,
                   powerHit, held, devState, downAtLastGetInput, press>>
    /\ script' = ScriptAfter("keydown", OtherCode)
    /\ UNCHANGED <<pc, event>>

OtherKeyUp ==
    /\ SetKeys(DispatchKeyup(Keys, keyupListeners, OtherCode))
    /\ lastOp' = "event"
    /\ UNCHANGED <<value, powerHitKeyIsDownPrevious, xDirection, yDirection,
                   powerHit, held, devState, downAtLastGetInput, press>>
    /\ script' = ScriptAfter("keyup", OtherCode)
    /\ UNCHANGED <<pc, event>>

GetInput ==
    /\ xDirection' = XDirectionOf(isDown)
    /\ yDirection' = YDirectionOf(isDown)
    /\ powerHit' = PowerHitOf(powerHitKeyIsDownPrevious, isDown["powerHitKey"])
    /\ powerHitKeyIsDownPrevious' = PreviousOf(powerHitKeyIsDownPrevious, isDown["powerHitKey"])
    /\ lastOp' = "getInput"
    /\ downAtLastGetInput' = isDown["powerHitKey"]
    /\ press' = IF PowerHitCode \in held
                THEN [press EXCEPT !.frames = Min(@ + 1, MaxFrames),
                                   !.pulses = Min(@ + powerHit', MaxFrames)]
                ELSE press
    /\ UNCHANGED <<value, isDown, isUp, keyupListeners, keydownListeners,
                   held, devState>>
    /\ script' = ScriptAfter("getInput", NullCode)
    /\ UNCHANGED <<pc, event>>

Subscribe ==
    /\ SetKeys(SubscribeKeys(Keys, KeyOrder))
    /\ lastOp' = "subscribe"
    /\ devState' = "subscribed"
    /\ press' = [press EXCEPT !.consecutive = FALSE]
    /\ UNCHANGED <<value, powerHitKeyIsDownPrevious, xDirection, yDirection,
                   powerHit, held, downAtLastGetInput>>
    /\ script' = ScriptAfter("subscribe", NullCode)
    /\ UNCHANGED <<pc, event>>

\* faulty variant: unsubscribe() also clears the output fields
Unsubscribe_ClearsOutputs ==
    /\ SetKeys(UnsubscribeKeys(Keys, KeyOrder))
    /\ lastOp' = IF devState = "unsubscribed" THEN "unsubscribe again" ELSE "unsubscribe"
    /\ devState' = "unsubscribed"
    /\ press' = [press EXCEPT !.consecutive = FALSE, !.subscribed = FALSE]
    /\ xDirection' = 0 /\ yDirection' = 0 /\ powerHit' = 0
    /\ UNCHANGED <<value, powerHitKeyIsDownPrevious, held, downAtLastGetInput>>
    /\ script' = ScriptAfter("unsubscribe", NullCode)
    /\ UNCHANGED <<pc, event>>

Unsubscribe ==
    /\ SetKeys(UnsubscribeKeys(Keys, KeyOrder))
    /\ lastOp' = IF devState = "unsubscribed" THEN "unsubscribe again" ELSE "unsubscribe"
    /\ devState' = "unsubscribed"
    /\ press' = [press EXCEPT !.consecutive = FALSE, !.subscribed = FALSE]
    /\ UNCHANGED <<value, powerHitKeyIsDownPrevious, xDirection, yDirection,
                   powerHit, held, downAtLastGetInput>>
    /\ script' = ScriptAfter("unsubscribe", NullCode)
    /\ UNCHANGED <<pc, event>>

Next ==
    \/ \E c \in BoundCodes : KeyDown(c)
    \/ \E c \in BoundCodes : KeyRepeat(c)
    \/ \E c \in BoundCodes : KeyUp(c)
    \/ OtherKeyDown
    \/ OtherKeyUp
    \/ GetInput
    \/ Subscribe
    \/ Unsubscribe

Spec == Init /\ [][Next]_vars

(***************************************************************************)
(* The Key objects alone, statement by statement                           *)
(***************************************************************************)
\* what SpecSteps does not follow: getInput() and the histories of Spec
NotStepped == <<value, powerHitKeyIsDownPrevious, xDirection, yDirection, powerHit,
                lastOp, devState, downAtLastGetInput, press, script>>

\* the window dispatches an event only between statements of subscribe() or
\* between calls, never inside unsubscribe()
EventsAllowed == pc.op # "unsubscribe"

\* the window dispatches the event and the event object is kept
StepDispatch(type, c) ==
    LET w == IF type = "keydown"
             THEN DispatchKeydown(Keys, keydownListeners, c)
             ELSE DispatchKeyup(Keys, keyupListeners, c)
    IN  /\ SetKeys(w)
        /\ event' = [type |-> type, code |-> c, preventedBy |-> w.preventedBy]

StepKeyDown(c) ==
    /\ EventsAllowed
    /\ c \notin held
    /\ held' = held \cup {c}
    /\ StepDispatch("keydown", c)
    /\ UNCHANGED <<NotStepped, pc>>

StepKeyRepeat(c) ==
    /\ EventsAllowed
    /\ c \in held
    /\ StepDispatch("keydown", c)
    /\ UNCHANGED <<NotStepped, pc, held>>

StepKeyUp(c) ==
    /\ EventsAllowed
    /\ c \in held
    /\ held' = held \ {c}
    /\ StepDispatch("keyup", c)
    /\ UNCHANGED <<NotStepped, pc>>

StepOtherKeyDown ==
    /\ EventsAllowed
    /\ StepDispatch("keydown", OtherCode)
    /\ UNCHANGED <<NotStepped, pc, held>>

StepOtherKeyUp ==
    /\ EventsAllowed
    /\ StepDispatch("keyup", OtherCode)
    /\ UNCHANGED <<NotStepped, pc, held>>

\* PikaKeyboard.subscribe() / unsubscribe() is called: its first statement is
\* the first statement of the first key's method
BeginSubscribe ==
    /\ pc = Idle
    /\ pc' = [op |-> "subscribe", key |-> 1, stmt |-> 1]
    /\ event' = NoEvent
    /\ UNCHANGED <<NotStepped, held, isDown, isUp, keyupListeners, keydownListeners>>

BeginUnsubscribe ==
    /\ pc = Idle
    /\ pc' = [op |-> "unsubscribe", key |-> 1, stmt |-> 1]
    /\ event' = NoEvent
    /\ UNCHANGED <<NotStepped, held, isDown, isUp, keyupListeners, keydownListeners>>

\* the statements of the method that pc.op names
StatementsOf(op) ==
    IF op = "subscribe" THEN SubscribeStatements ELSE UnsubscribeStatements

\* the next statement runs; after a key's last statement the next key's
\* method starts, after the last key the call returns
Statement ==
    /\ pc # Idle
    /\ SetKeys(KeyStatement(Keys, KeyOrder[pc.key], StatementsOf(pc.op)[pc.stmt]))
    /\ pc' = IF pc.stmt < Len(StatementsOf(pc.op))
             THEN [pc EXCEPT !.stmt = @ + 1]
             ELSE IF pc.key < Len(KeyOrder)
                  THEN [pc EXCEPT !.key = @ + 1, !.stmt = 1]
                  ELSE Idle
    /\ event' = NoEvent
    /\ UNCHANGED <<NotStepped, held>>

NextSteps ==
    \/ \E c \in BoundCodes : StepKeyDown(c)
    \/ \E c \in BoundCodes : StepKeyRepeat(c)
    \/ \E c \in BoundCodes : StepKeyUp(c)
    \/ StepOtherKeyDown
    \/ StepOtherKeyUp
    \/ BeginSubscribe
    \/ BeginUnsubscribe
    \/ Statement

SpecSteps == Init /\ [][NextSteps]_vars

(***************************************************************************)
(* Properties                                                              *)
(***************************************************************************)
AfterGetInput == lastOp = "getInput"

PowerHitHeld == PowerHitCode \in held

Neutral == xDirection = 0 /\ yDirection = 0 /\ powerHit = 0

\* C1, as stated: after the power hit key goes down, of the consecutive
\* getInput() calls made while it stays held (no release, subscribe() or
\* unsubscribe() in between) the first leaves powerHit = 1 and every later
\* one leaves powerHit = 0, from every reachable state. Stated here for the
\* presses a subscribed device sees, which is the case most in its favour.
C1_EdgeTriggerOnHold_Original ==
    AfterGetInput /\ press.consecutive /\ press.subscribed /\ press.frames >= 1
        => powerHit = (IF press.frames = 1 THEN 1 ELSE 0)

\* C1, amended: of those consecutive getInput() calls every one after the
\* first leaves powerHit = 0, and the first leaves powerHit = 1 exactly when
\* the key's listeners were registered at the press and the latest
\* getInput() call before the press, if any, found the key up (isDown
\* false); otherwise the first leaves 0 too.
C1_EdgeTriggerOnHold ==
    AfterGetInput /\ press.consecutive /\ press.frames >= 1
        => powerHit = (IF /\ press.frames = 1
                          /\ press.subscribed
                          /\ ~press.seenDownBefore
                       THEN 1 ELSE 0)

\* C1 witness: the key held through MaxFrames or more consecutive getInput()
\* calls after a press that followed a getInput() with the key up: one pulse, now 0
C1_Witness ==
    /\ AfterGetInput /\ press.consecutive /\ press.subscribed
    /\ ~press.seenDownBefore
    /\ press.frames = MaxFrames /\ press.pulses = 1 /\ powerHit = 0

\* C2: getInput() leaves powerHit = 1 at most once during one continuous
\* physical press of the power hit key, whatever keydown repeats, getInput(),
\* subscribe() and unsubscribe() calls happen during the press.
C2_NoRepeatFire == PowerHitHeld => press.pulses <= 1

\* C3, as stated: every completed press of the power hit key on a subscribed
\* device had exactly one getInput() call that left powerHit = 1.
C3_OnePulsePerCycle_Original ==
    press.started /\ ~PowerHitHeld /\ press.subscribed => press.pulses = 1

\* C3, amended: a completed press of the power hit key on a device that
\* stayed subscribed had exactly one getInput() call with powerHit = 1 when
\* at least one getInput() call fell inside the hold and the latest
\* getInput() call before the press, if any, found the key up (isDown
\* false), and had none otherwise;
\* a getInput() call after the release leaves powerHit = 0.
C3_OnePulsePerCycle ==
    press.started /\ ~PowerHitHeld /\ press.subscribed
        => /\ press.pulses = (IF press.frames >= 1 /\ ~press.seenDownBefore
                              THEN 1 ELSE 0)
           /\ AfterGetInput => powerHit = 0

\* C3 witness: a press released after getInput() calls inside the hold, one pulse
C3_Witness ==
    /\ press.started /\ ~PowerHitHeld /\ press.subscribed
    /\ lastOp = "event"
    /\ press.frames >= 1 /\ press.pulses = 1 /\ powerHit = 0

\* the keys that are down, as the Key objects report it
Down == {k \in KeyNames : isDown[k]}

\* C4: right after getInput(), xDirection is -1 if the left key is down,
\* otherwise 1 if the right key or the down-right key is down, otherwise 0;
\* left wins over right and over down-right.
C4_HorizontalResolution ==
    AfterGetInput =>
        /\ "leftKey" \in Down => xDirection = -1
        /\ "leftKey" \notin Down /\ Down \cap {"rightKey", "downRightKey"} # {}
               => xDirection = 1
        /\ Down \cap {"leftKey", "rightKey", "downRightKey"} = {} => xDirection = 0

\* C4 witness: left and right down together, left wins
C4_Witness ==
    /\ AfterGetInput /\ xDirection = -1
    /\ {"leftKey", "rightKey"} \subseteq Down

\* C5: right after getInput(), yDirection is -1 if the up key is down,
\* otherwise 1 if the down key or the down-right key is down, otherwise 0;
\* up wins over down and over down-right.
C5_VerticalResolution ==
    AfterGetInput =>
        /\ "upKey" \in Down => yDirection = -1
        /\ "upKey" \notin Down /\ Down \cap {"downKey", "downRightKey"} # {}
               => yDirection = 1
        /\ Down \cap {"upKey", "downKey", "downRightKey"} = {} => yDirection = 0

\* C5 witness: up, down and down-right down together
C5_Witness ==
    /\ AfterGetInput /\ yDirection = -1
    /\ {"upKey", "downKey", "downRightKey"} \subseteq Down

\* C6: on a keyboard constructed with a down-right code, right after
\* getInput() with the down-right key the only key down, xDirection = 1 and
\* yDirection = 1; with the down-right key up, the right key alone does not
\* give yDirection = 1 and the down key alone does not give xDirection = 1.
C6_ComboAlias ==
    AfterGetInput /\ value["downRightKey"] # NullCode =>
        /\ Down = {"downRightKey"} => xDirection = 1 /\ yDirection = 1
        /\ Down = {"rightKey"} => yDirection # 1
        /\ Down = {"downKey"} => xDirection # 1
        /\ Cardinality(Down) = 1 /\ xDirection = 1 /\ yDirection = 1
               => Down = {"downRightKey"}

\* C6 witness: the down-right key alone gives the diagonal
C6_Witness ==
    /\ AfterGetInput /\ value["downRightKey"] # NullCode
    /\ Down = {"downRightKey"} /\ xDirection = 1 /\ yDirection = 1

\* C7: from unsubscribe() until the next subscribe(), every key reports
\* isDown = FALSE and isUp = TRUE whatever keys were held before and whatever
\* events arrive, and getInput() leaves the neutral snapshot.
C7_UnsubscribeRoundTrip ==
    devState = "unsubscribed" =>
        /\ \A k \in KeyNames : isDown[k] = FALSE /\ isUp[k] = TRUE
        /\ AfterGetInput => Neutral

\* C7 witness: unsubscribed with a key still held from before, the power hit
\* key pressed after unsubscribe(), and getInput() called since
C7_Witness ==
    /\ devState = "unsubscribed" /\ AfterGetInput /\ Neutral
    /\ value["leftKey"] \in held
    /\ PowerHitHeld /\ press.consecutive /\ ~press.subscribed

\* C8, as stated: on a keyboard that was only constructed (subscribe() never
\* called), getInput() leaves the neutral snapshot whatever events have been
\* delivered since construction.
C8_CaptureWithoutSubscribe_Original ==
    devState = "constructed" /\ AfterGetInput => Neutral

\* C8, amended: on a keyboard that was only constructed, getInput() leaves
\* the neutral snapshot when none of the keyboard's keys is held; the
\* constructor has already subscribed every key, so a key held since
\* construction shows in the snapshot (left held gives xDirection = -1, up
\* held gives yDirection = -1).
C8_CaptureWithoutSubscribe ==
    devState = "constructed" /\ AfterGetInput =>
        /\ held = {} => Neutral
        /\ value["leftKey"] \in held => xDirection = -1
        /\ value["upKey"] \in held => yDirection = -1

\* C8 witness: only constructed, the power hit key pressed and released
\* since, no key held, neutral snapshot
C8_Witness ==
    /\ devState = "constructed" /\ AfterGetInput
    /\ press.started /\ press.frames = 1 /\ held = {} /\ Neutral

\* C9: a key is constructed with isDown = FALSE, isUp = TRUE and both its
\* listeners registered, so that before any subscribe() or unsubscribe() call
\* a key of the keyboard that has gone down reports isDown = TRUE.
C9_ConstructionSubscribes ==
    /\ lastOp = "constructor" =>
           \A k \in KeyNames : isDown[k] = FALSE /\ isUp[k] = TRUE
    /\ devState = "constructed" =>
           \A k \in KeyNames : /\ Registered(k)
                               /\ value[k] \in held => isDown[k] = TRUE

\* C9 witness: only constructed, a keydown just delivered, the key is down
C9_Witness ==
    /\ devState = "constructed" /\ lastOp = "event"
    /\ held = {value["downKey"]} /\ isDown["downKey"] = TRUE

\* C10: in every reachable state every key has isDown = ~isUp.
C10_KeyStateExclusive ==
    \A k \in KeyNames : isDown[k] \in BOOLEAN /\ isUp[k] = ~isDown[k]

\* C10 witness: after unsubscribe() and subscribe(), one key down and
\* another physically held but reported up
C10_Witness ==
    /\ devState = "subscribed"
    /\ isDown["rightKey"] = TRUE /\ isUp["rightKey"] = FALSE
    /\ value["upKey"] \in held /\ isDown["upKey"] = FALSE /\ isUp["upKey"] = TRUE

\* C11: on a keyboard constructed without a down-right code (null) the
\* down-right key is up in every reachable state, whatever events arrive and
\* whatever subscribe()/unsubscribe() calls are made, and getInput() resolves
\* the directions from the four direction keys alone.
C11_DisabledCombo ==
    value["downRightKey"] = NullCode =>
        /\ isDown["downRightKey"] = FALSE /\ isUp["downRightKey"] = TRUE
        /\ AfterGetInput =>
               /\ xDirection = (IF isDown["leftKey"] THEN -1
                                ELSE IF isDown["rightKey"] THEN 1 ELSE 0)
               /\ yDirection = (IF isDown["upKey"] THEN -1
                                ELSE IF isDown["downKey"] THEN 1 ELSE 0)

\* C11 witness: no down-right code, subscribe() called, right and down held:
\* the diagonal comes from the two plain keys
C11_Witness ==
    /\ value["downRightKey"] = NullCode /\ devState = "subscribed"
    /\ AfterGetInput /\ Down = {"rightKey", "downKey"}
    /\ xDirection = 1 /\ yDirection = 1

\* a Key whose press (keydown) callback is registered also has its release
\* (keyup) callback registered
PressImpliesRelease(downs, ups) ==
    \A k \in KeyNames : k \in Range(downs) => k \in Range(ups)

\* C12: statement by statement through subscribe() and unsubscribe(), a step
\* that registers a Key's keydown callback finds its keyup callback already
\* registered, and before and after every step each Key with a registered
\* keydown callback has its keyup callback registered.
C12_ReleaseRegisteredFirst ==
    [][/\ \A k \in KeyNames :
              (k \in Range(keydownListeners') /\ k \notin Range(keydownListeners))
                  => k \in Range(keyupListeners)
       /\ PressImpliesRelease(keydownListeners, keyupListeners)
       /\ PressImpliesRelease(keydownListeners', keyupListeners')]_vars

\* C12 witness: inside subscribe(), between the two registrations of the first
\* Key: keyup is registered, keydown not yet
C12_Witness ==
    /\ pc.op = "subscribe" /\ pc.key = 1 /\ pc.stmt = 2
    /\ "leftKey" \in Range(keyupListeners)
    /\ "leftKey" \notin Range(keydownListeners)

\* C13: unsubscribe() called on a device that is already unsubscribed changes
\* neither the registered callbacks, nor any Key's isDown/isUp, nor the output
\* fields, nor the previous-frame latch.
C13_UnsubscribeIdempotent ==
    [][lastOp' = "unsubscribe again" =>
           UNCHANGED <<keyupListeners, keydownListeners, isDown, isUp,
                       xDirection, yDirection, powerHit,
                       powerHitKeyIsDownPrevious>>]_vars

\* C13 witness: a second unsubscribe() while the left key is still physically
\* held and the outputs of the last getInput() are still in place
C13_Witness ==
    /\ lastOp = "unsubscribe again" /\ devState = "unsubscribed"
    /\ value["leftKey"] \in held /\ xDirection = -1
    /\ keyupListeners = <<>> /\ keydownListeners = <<>>
    /\ Down = {}

\* the three output fields as getInput() leaves them
Snapshot == <<xDirection, yDirection, powerHit>>

\* C14: on a keyboard without a down-right code, the run press left, getInput,
\* press power hit, getInput, getInput, release left, release power hit,
\* getInput leaves the outputs (-1,0,0), (-1,0,1), (-1,0,0) and (0,0,0) after
\* its four getInput() calls, in that order.
C14_ReferenceScenario ==
    /\ script = 2 => Snapshot = <<-1, 0, 0>>
    /\ script = 4 => Snapshot = <<-1, 0, 1>>
    /\ script = 5 => Snapshot = <<-1, 0, 0>>
    /\ script = 8 => Snapshot = <<0, 0, 0>>

\* C14 witness: the reference scenario has run to its last getInput()
C14_Witness ==
    /\ script = Len(ReferenceTrace) /\ lastOp = "getInput"
    /\ value["downRightKey"] = NullCode
    /\ held = {} /\ Snapshot = <<0, 0, 0>>
    /\ press.pulses = 1

\* C15: a step that is not a getInput() call (a key event, subscribe(),
\* unsubscribe()) leaves xDirection, yDirection and powerHit unchanged.
C15_SnapshotSemantics ==
    [][lastOp' # "getInput" => UNCHANGED <<xDirection, yDirection, powerHit>>]_vars

\* C15 witness: after releases and an unsubscribe() no key is down, and the
\* outputs still show the last getInput()
C15_Witness ==
    /\ lastOp = "unsubscribe" /\ Down = {} /\ held = {}
    /\ Snapshot = <<-1, 1, 1>>

\* the step changes isDown or isUp of key k
KeyStateWritten(k) == isDown'[k] # isDown[k] \/ isUp'[k] # isUp[k]

\* the step is the dispatch of an event of key k's own code
OwnCallbackStep(k) ==
    /\ value[k] \in BoundCodes
    /\ KeyDown(value[k]) \/ KeyRepeat(value[k]) \/ KeyUp(value[k])

\* C16 as stated: a Key's isDown/isUp change only in the Key's own keydown and
\* keyup callbacks; getInput(), subscribe(), unsubscribe() and the other
\* Keys' callbacks never change them.
C16_KeyStateOwnership_Original ==
    [][\A k \in KeyNames : KeyStateWritten(k) => OwnCallbackStep(k)]_vars

\* C16 amended: a Key's isDown/isUp change only in the Key's own keydown and
\* keyup callbacks and in unsubscribe(), which resets them to isDown = false,
\* isUp = true; getInput(), subscribe() and the other Keys' callbacks never
\* change them.
C16_KeyStateOwnership ==
    [][\A k \in KeyNames :
          KeyStateWritten(k) =>
              \/ OwnCallbackStep(k)
              \/ /\ lastOp' \in {"unsubscribe", "unsubscribe again"}
                 /\ isDown'[k] = FALSE /\ isUp'[k] = TRUE]_vars

\* C16 witness: unsubscribe() has reset a Key whose physical key is still
\* held, while the outputs still show it as down
C16_Witness ==
    /\ lastOp = "unsubscribe" /\ value["rightKey"] \in held
    /\ isDown["rightKey"] = FALSE /\ isUp["rightKey"] = TRUE
    /\ xDirection = 1

\* key k has its callback for events of this type registered
RegisteredFor(k, type) ==
    IF type = "keydown" THEN k \in Range(keydownListeners)
                        ELSE k \in Range(keyupListeners)

\* C17: when an event is dispatched, every Key whose callback for that event
\* type is registered and whose code equals the event's code becomes down (on
\* keydown) or up (on keyup) and calls preventDefault() on the event; every Key
\* whose code differs keeps its isDown/isUp and does not call preventDefault().
C17_MatchAndConsume ==
    [][event' # NoEvent =>
          \A k \in KeyNames :
              /\ (RegisteredFor(k, event'.type) /\ value[k] = event'.code)
                     => /\ isDown'[k] = (event'.type = "keydown")
                        /\ isUp'[k] = (event'.type = "keyup")
                        /\ k \in event'.preventedBy
              /\ value[k] # event'.code
                     => /\ isDown'[k] = isDown[k] /\ isUp'[k] = isUp[k]
                        /\ k \notin event'.preventedBy]_vars

\* C17 witness: the keyup of the power hit key has been dispatched: that Key
\* alone consumed it and is up, while the left Key stays down
C17_Witness ==
    /\ event.type = "keyup" /\ event.code = value["powerHitKey"]
    /\ event.preventedBy = {"powerHitKey"}
    /\ isUp["powerHitKey"] = TRUE /\ isDown["powerHitKey"] = FALSE
    /\ isDown["leftKey"] = TRUE

\* C18: in every state, those between the statements of subscribe() included,
\* a Key that reports isDown = true has its physical key held: no sequence of
\* presses and releases leaves a Key down after its physical key is up.
C18_NoKeyLatchedDown ==
    \A k \in KeyNames : isDown[k] = TRUE => value[k] \in held

\* C18 witness: between the two registrations of the left Key in subscribe()
\* the left key's release has been dispatched to the keyup callback already
\* registered; the Key is up and the physical key is up
C18_Witness ==
    /\ pc.op = "subscribe" /\ pc.key = 1 /\ pc.stmt = 2
    /\ event.type = "keyup" /\ event.code = value["leftKey"]
    /\ event.preventedBy = {"leftKey"}
    /\ value["leftKey"] \notin held
    /\ isDown["leftKey"] = FALSE /\ isUp["leftKey"] = TRUE

\* C19: powerHitKeyIsDownPrevious is false after construction and in every
\* state equals the isDown the power hit key had at the most recent getInput()
\* call (false when there has been none); since that history value changes in
\* getInput() only, key events, subscribe() and unsubscribe() leave the latch
\* unchanged.
C19_EdgeLatch ==
    /\ powerHitKeyIsDownPrevious = downAtLastGetInput
    /\ lastOp = "constructor" => powerHitKeyIsDownPrevious = FALSE

\* C19 witness: the latch still holds true from the last getInput() after the
\* power hit key was released and the keyboard unsubscribed
C19_Witness ==
    /\ powerHitKeyIsDownPrevious = TRUE /\ lastOp = "unsubscribe"
    /\ isDown["powerHitKey"] = FALSE /\ PowerHitCode \notin held

\* no listener is in the list twice
NoDuplicates(list) == Len(list) = Cardinality(Range(list))

\* C20: whatever sequence of subscribe() calls has run (the constructor's
\* included), no Key's keydown or keyup callback is registered more than once;
\* so once unsubscribe() has run no callback is registered, and until the next
\* subscribe() every Key stays up whatever events arrive.
C20_SubscribeIdempotent ==
    /\ NoDuplicates(keydownListeners) /\ NoDuplicates(keyupListeners)
    /\ devState = "unsubscribed" =>
           /\ keydownListeners = <<>> /\ keyupListeners = <<>>
           /\ Down = {}

\* C20 witness: subscribe() has just run on a keyboard whose left Key was
\* already registered (it is down, which only a registered callback can have
\* done, and subscribe() changes no isDown): each list holds six callbacks
C20_Witness ==
    /\ lastOp = "subscribe" /\ devState = "subscribed"
    /\ isDown["leftKey"] = TRUE /\ value["leftKey"] \in held
    /\ Len(keydownListeners) = Len(KeyOrder)
    /\ Len(keyupListeners) = Len(KeyOrder)

====
